---- MODULE Spec2Model ----
(***************************************************************************)
(* pyawscron: the AWS six-field cron parser (awscron.py), the calendar     *)
(* resolver (commons.py) and the schedule queries built on them.           *)
(*                                                                         *)
(* Texts are sequences of one-character strings, so that split, int(),     *)
(* str(), startswith, endswith and replace are computed as Python computes *)
(* them.  An instant is a record [kind, tz, min, sec]: min counts the      *)
(* wall-clock minutes since 1970-01-01 00:00 in the instant's own zone.    *)
(* Microseconds are not modelled: seconds stand for every sub-minute part. *)
(***************************************************************************)
EXTENDS Integers, Sequences, FiniteSets, TLC

VARIABLES pc, op, rules, k, fields, start, end, increment, new_rule, iters, tick, out

vars == <<pc, op, rules, k, fields, start, end, increment, new_rule, iters, tick, out>>

(***************************************************************************)
(* Python text primitives                                                  *)
(***************************************************************************)
DigitChars == <<"0", "1", "2", "3", "4", "5", "6", "7", "8", "9">>

IsDigit(c) == \E i \in 1..10 : DigitChars[i] = c

DigitVal(c) == (CHOOSE i \in 1..10 : DigitChars[i] = c) - 1

RECURSIVE NatStr(_)
NatStr(n) ==
    IF n < 10 THEN <<DigitChars[n + 1]>>
    ELSE NatStr(n \div 10) \o <<DigitChars[(n % 10) + 1]>>

\* str(n) of an integer
PyStr(n) == IF n < 0 THEN <<"-">> \o NatStr(-n) ELSE NatStr(n)

RECURSIVE DigitsVal(_, _)
DigitsVal(s, acc) ==
    IF s = <<>> THEN acc ELSE DigitsVal(Tail(s), acc * 10 + DigitVal(Head(s)))

AllDigits(s) == Len(s) > 0 /\ \A i \in 1..Len(s) : IsDigit(s[i])

\* int(s): an optional sign and at least one decimal digit, else ValueError
\* (ok = FALSE).  The texts of the model hold no blanks or underscores.
PyInt(s) ==
    IF AllDigits(s) THEN [ok |-> TRUE, val |-> DigitsVal(s, 0)]
    ELSE IF Len(s) > 1 /\ s[1] \in {"+", "-"} /\ AllDigits(Tail(s))
         THEN [ok |-> TRUE,
               val |-> (IF s[1] = "-" THEN -1 ELSE 1) * DigitsVal(Tail(s), 0)]
         ELSE [ok |-> FALSE, val |-> 0]

\* c in s
Contains(s, c) == \E i \in 1..Len(s) : s[i] = c

StartsWith(s, p) == Len(s) >= Len(p) /\ SubSeq(s, 1, Len(p)) = p

EndsWith(s, c) == Len(s) >= 1 /\ s[Len(s)] = c

\* s.split(sep) for a one-character separator: "".split(",") is [""]
PySplit(s, sep) ==
    LET seps   == {i \in 1..Len(s) : s[i] = sep}
        \* the position of the n-th separator; 0 and Len(s) + 1 close the text
        pos(n) == IF n = 0 THEN 0
                  ELSE IF n > Cardinality(seps) THEN Len(s) + 1
                  ELSE CHOOSE i \in seps : Cardinality({j \in seps : j < i}) = n - 1
    IN  [n \in 1..(Cardinality(seps) + 1) |-> SubSeq(s, pos(n - 1) + 1, pos(n) - 1)]

\* s.replace(old, new): every non-overlapping occurrence, left to right
RECURSIVE PyReplace(_, _, _)
PyReplace(s, old, new) ==
    IF Len(s) < Len(old) THEN s
    ELSE IF SubSeq(s, 1, Len(old)) = old
         THEN new \o PyReplace(SubSeq(s, Len(old) + 1, Len(s)), old, new)
         ELSE <<Head(s)>> \o PyReplace(Tail(s), old, new)

LowerChars == <<"a", "b", "c", "d", "e", "f", "g", "h", "i", "j", "k", "l", "m",
                "n", "o", "p", "q", "r", "s", "t", "u", "v", "w", "x", "y", "z">>

UpperChars == <<"A", "B", "C", "D", "E", "F", "G", "H", "I", "J", "K", "L", "M",
                "N", "O", "P", "Q", "R", "S", "T", "U", "V", "W", "X", "Y", "Z">>

\* s.upper()
PyUpper(s) ==
    [i \in 1..Len(s) |->
        IF \E j \in 1..26 : LowerChars[j] = s[i]
        THEN UpperChars[CHOOSE j \in 1..26 : LowerChars[j] = s[i]]
        ELSE s[i]]

\* sep.join(parts)
RECURSIVE PyJoin(_, _)
PyJoin(parts, sep) ==
    IF parts = <<>> THEN <<>>
    ELSE IF Len(parts) = 1 THEN parts[1]
    ELSE parts[1] \o <<sep>> \o PyJoin(Tail(parts), sep)

\* list.sort() of a list of integers (duplicates kept)
PySort(s) == SortSeq(s, LAMBDA a, b : a < b)

\* range(a, b + 1, 1) as a list
RangeList(a, b) == [i \in 1..(IF b >= a THEN b - a + 1 ELSE 0) |-> a + i - 1]

(***************************************************************************)
(* datetime / calendar primitives                                          *)
(***************************************************************************)
IsLeap(y) == (y % 4 = 0 /\ y % 100 # 0) \/ y % 400 = 0

\* calendar.monthrange(year, month)[1]
MonthLen(y, m) ==
    IF m = 2 THEN (IF IsLeap(y) THEN 29 ELSE 28)
    ELSE IF m \in {4, 6, 9, 11} THEN 30 ELSE 31

LeapsThrough(y) == (y \div 4) - (y \div 100) + (y \div 400)

\* days from 1970-01-01 to the first day of year y
DaysBeforeYear(y) == 365 * (y - 1970) + LeapsThrough(y - 1) - LeapsThrough(1969)

RECURSIVE DaysBeforeMonth(_, _)
DaysBeforeMonth(y, m) ==
    IF m = 1 THEN 0 ELSE DaysBeforeMonth(y, m - 1) + MonthLen(y, m - 1)

\* the ordinal of a date, counted from 1970-01-01 = 0
DaysFromCivil(y, m, d) == DaysBeforeYear(y) + DaysBeforeMonth(y, m) + (d - 1)

\* the date of an ordinal (proleptic Gregorian, as datetime computes it)
CivilFromDays(n) ==
    LET z   == n + 719468
        era == z \div 146097
        doe == z - era * 146097
        yoe == (doe - (doe \div 1460) + (doe \div 36524) - (doe \div 146096)) \div 365
        doy == doe - (365 * yoe + (yoe \div 4) - (yoe \div 100))
        mp  == (5 * doy + 2) \div 153
        d   == doy - ((153 * mp + 2) \div 5) + 1
        m   == IF mp < 10 THEN mp + 3 ELSE mp - 9
        y   == yoe + era * 400 + (IF m <= 2 THEN 1 ELSE 0)
    IN  [year |-> y, month |-> m, day |-> d]

\* datetime.weekday(): Monday = 0 .. Sunday = 6 (1970-01-01 was a Thursday)
weekday(n) == (n + 3) % 7

(***************************************************************************)
(* Outcomes: a call returns a value (exc = "none") or raises exc.          *)
(***************************************************************************)
Return(v) == [exc |-> "none", val |-> v]

Raise(e) == [exc |-> e, val |-> <<>>]

(***************************************************************************)
(* commons.py                                                              *)
(***************************************************************************)
\* Monday = 1 .. Sunday = 7: the week not started on Sunday
python_to_aws_day_of_week_monday_first(python_day_of_week) == python_day_of_week + 1

python_to_aws_day_of_week(python_day_of_week) ==
    <<2, 3, 4, 5, 6, 7, 1>>[python_day_of_week + 1]

\* The first element satisfying function, or None (found = FALSE).
array_find_first(sequence, function) ==
    IF \E i \in 1..Len(sequence) : function[sequence[i]]
    THEN [found |-> TRUE,
          val |-> sequence[CHOOSE i \in 1..Len(sequence) :
                      function[sequence[i]]
                      /\ \A j \in 1..(i - 1) : ~function[sequence[j]]]]
    ELSE [found |-> FALSE, val |-> 0]

is_weekday(year, month, day) ==
    IF day < 1 \/ day > 31 THEN FALSE
    ELSE LET ord       == DaysFromCivil(year, month, 1) + (day - 1)
             this_date == CivilFromDays(ord)
         IN  IF ~(this_date.month = month /\ this_date.year = year) THEN FALSE
             ELSE weekday(ord) >= 0 /\ weekday(ord) <= 4

WOffsets == <<0, 1, -1, 2, -2>>

get_days_of_month_for_W(year, month, day) ==
    LET offset == array_find_first(WOffsets,
                      [c \in Int |-> is_weekday(year, month, day + c)])
    IN  IF ~offset.found THEN Raise("Exception")
        ELSE LET result            == day + offset.val
                 last_day_of_month == MonthLen(year, month)
             IN  IF result > last_day_of_month THEN Return(<<>>)
                 ELSE Return(<<result>>)

get_days_of_month_for_L(year, month, days_before) ==
    LET i == array_find_first(<<31, 30, 29, 28>>,
                 [c \in Int |->
                     CivilFromDays(DaysFromCivil(year, month, 1) + (c - 1)).month = month])
    IN  IF i.found THEN Return(<<i.val - days_before>>)
        ELSE Raise("Exception")

\* The loop of get_days_of_month_from_days_of_week from day i on; a field
\* constraint [kind, vals] stands for the list the parser returns, kind
\* being its leading marker ("L", "W", "#") or "list" for a list of integers.
RECURSIVE DaysOfWeekLoop(_, _, _, _, _, _)
DaysOfWeekLoop(year, month, days_of_week, i, index, days_of_month) ==
    IF i > MonthLen(year, month) THEN Return(days_of_month)
    ELSE
      LET ord == DaysFromCivil(year, month, i)
          aws == python_to_aws_day_of_week(weekday(ord))
      IN
      IF CivilFromDays(ord).month # month THEN Return(days_of_month)
      ELSE IF days_of_week.kind = "list" /\ days_of_week.vals = <<>>
      THEN Raise("IndexError")
      ELSE IF days_of_week.kind = "L"
      THEN IF days_of_week.vals[1] = aws
              /\ CivilFromDays(ord + 7).month # CivilFromDays(ord).month
           THEN Return(<<i>>)
           ELSE DaysOfWeekLoop(year, month, days_of_week, i + 1, index, days_of_month)
      ELSE IF days_of_week.kind = "#"
      THEN LET index2 == IF days_of_week.vals[1] = aws THEN index + 1 ELSE index
           IN  IF days_of_week.vals[2] = index2 THEN Return(<<i>>)
               ELSE DaysOfWeekLoop(year, month, days_of_week, i + 1, index2, days_of_month)
      ELSE IF \E j \in 1..Len(days_of_week.vals) : days_of_week.vals[j] = aws
      THEN DaysOfWeekLoop(year, month, days_of_week, i + 1, index,
                          Append(days_of_month, i))
      ELSE DaysOfWeekLoop(year, month, days_of_week, i + 1, index, days_of_month)

get_days_of_month_from_days_of_week(year, month, days_of_week) ==
    DaysOfWeekLoop(year, month, days_of_week, 1, 0, <<>>)

(***************************************************************************)
(* awscron.py: the field parser                                            *)
(***************************************************************************)
MONTH_REPLACES ==
    << <<<<"J", "A", "N">>, <<"1">>>>, <<<<"F", "E", "B">>, <<"2">>>>,
       <<<<"M", "A", "R">>, <<"3">>>>, <<<<"A", "P", "R">>, <<"4">>>>,
       <<<<"M", "A", "Y">>, <<"5">>>>, <<<<"J", "U", "N">>, <<"6">>>>,
       <<<<"J", "U", "L">>, <<"7">>>>, <<<<"A", "U", "G">>, <<"8">>>>,
       <<<<"S", "E", "P">>, <<"9">>>>, <<<<"O", "C", "T">>, <<"1", "0">>>>,
       <<<<"N", "O", "V">>, <<"1", "1">>>>, <<<<"D", "E", "C">>, <<"1", "2">>>> >>

DAY_WEEK_REPLACES ==
    << <<<<"S", "U", "N">>, <<"1">>>>, <<<<"M", "O", "N">>, <<"2">>>>,
       <<<<"T", "U", "E">>, <<"3">>>>, <<<<"W", "E", "D">>, <<"4">>>>,
       <<<<"T", "H", "U">>, <<"5">>>>, <<<<"F", "R", "I">>, <<"6">>>>,
       <<<<"S", "A", "T">>, <<"7">>>> >>

RECURSIVE ReplaceFrom(_, _, _)
ReplaceFrom(rs, table, i) ==
    IF i > Len(table) THEN rs
    ELSE ReplaceFrom(PyReplace(rs, table[i][1], table[i][2]), table, i + 1)

\* AWSCron.__replace
replace(s, table) == ReplaceFrom(PyUpper(s), table, 1)

\* The (min, max) that __parse hands to __parse_one_rule for field i (0-based).
FieldBounds ==
    << <<0, 59>>, <<0, 23>>, <<1, 31>>, <<1, 12>>, <<1, 7>>, <<1970, 2199>> >>

\* The text that __parse hands to __parse_one_rule for field i (0-based).
FieldRule(rs, i) ==
    IF i = 3 THEN replace(rs[i + 1], MONTH_REPLACES)
    ELSE IF i = 4 THEN replace(rs[i + 1], DAY_WEEK_REPLACES)
    ELSE rs[i + 1]

Constraint(kind, vals) == [kind |-> kind, vals |-> vals]

\* Lines 151-162: the special forms.  hit = FALSE when none applies.
SpecialRule(rule) ==
    LET some(o) == [hit |-> TRUE, res |-> o]
        one(marker, n) ==
            IF n.ok THEN some(Return(Constraint(marker, <<n.val>>)))
            ELSE some(Raise("ValueError"))
    IN
    IF rule = <<"?">> THEN some(Return(Constraint("list", <<>>)))
    ELSE IF rule = <<"L">> THEN some(Return(Constraint("L", <<0>>)))
    ELSE IF StartsWith(rule, <<"L", "-">>)
    THEN one("L", PyInt(SubSeq(rule, 3, Len(rule))))
    ELSE IF EndsWith(rule, "L") THEN one("L", PyInt(SubSeq(rule, 1, Len(rule) - 1)))
    ELSE IF EndsWith(rule, "W") THEN one("W", PyInt(SubSeq(rule, 1, Len(rule) - 1)))
    ELSE IF Contains(rule, "#")
    THEN LET a == PyInt(PySplit(rule, "#")[1])
             b == PyInt(PySplit(rule, "#")[2])
         IN  IF a.ok /\ b.ok THEN some(Return(Constraint("#", <<a.val, b.val>>)))
             ELSE some(Raise("ValueError"))
    ELSE [hit |-> FALSE, res |-> Raise("none")]

\* Lines 168-181: start, end and increment of a stepped rule.
StepSetup(rule, min, max) ==
    LET parts == PySplit(rule, "/")
        fail  == [exc |-> "ValueError", start |-> 0, end |-> 0, increment |-> 0]
        with(s, e) ==
            LET inc == PyInt(parts[2])
            IN  IF inc.ok
                THEN [exc |-> "none", start |-> s, end |-> e, increment |-> inc.val]
                ELSE fail
    IN
    IF parts[1] = <<"*">> THEN with(min, max)
    ELSE IF Contains(parts[1], "-")
    THEN LET splits == PySplit(parts[1], "-")
             s == PyInt(splits[1])
             e == PyInt(splits[2])
         IN  IF s.ok /\ e.ok THEN with(s.val, e.val) ELSE fail
    ELSE LET s == PyInt(parts[1])
         IN  IF s.ok THEN with(s.val, max) ELSE fail

\* Lines 191-198: the values one comma-separated item s appends to allows,
\* or the ValueError of int().
ItemAllows(s) ==
    IF Contains(s, "-")
    THEN LET parts == PySplit(s, "-")
             a == PyInt(parts[1])
             b == PyInt(parts[2])
         IN  IF a.ok /\ b.ok THEN Return(RangeList(a.val, b.val)) ELSE Raise("ValueError")
    ELSE LET n == PyInt(s)
         IN  IF n.ok THEN Return(<<n.val>>) ELSE Raise("ValueError")

\* the values of items lo..hi, in order
RECURSIVE AllowsOf(_, _, _)
AllowsOf(items, lo, hi) ==
    IF lo > hi THEN <<>>
    ELSE IF lo = hi THEN ItemAllows(items[lo]).val
    ELSE LET mid == (lo + hi) \div 2
         IN  AllowsOf(items, lo, mid) \o AllowsOf(items, mid + 1, hi)

\* Lines 189-200: expand new_rule and sort.  The for loop raises at the
\* first item int() rejects; nothing of it is kept then.
Allows(rule) ==
    LET items == PySplit(rule, ",")
    IN  IF \E i \in 1..Len(items) : ItemAllows(items[i]).exc # "none"
        THEN Raise("ValueError")
        ELSE Return(Constraint("list", PySort(AllowsOf(items, 1, Len(items)))))

(***************************************************************************)
(* Instants                                                                *)
(***************************************************************************)
Datetime(min, sec, tz) == [kind |-> "datetime", tz |-> tz, min |-> min, sec |-> sec]

\* Python's None, as the value next() and prev() return for "no match"
NoneVal == [kind |-> "None", tz |-> "none", min |-> 0, sec |-> 0]

\* a value that is no datetime at all (a str, a date, ...)
NotADatetime == [kind |-> "str", tz |-> "none", min |-> 0, sec |-> 0]

\* utcoffset() in minutes: "plus1" is a fixed +01:00 zone
UtcOffset(tz) == IF tz = "plus1" THEN 60 ELSE 0

UtcMin(t) == t.min - UtcOffset(t.tz)

IsAware(t) == t.tz # "naive"

\* a <= b and a > b of two datetimes of the same awareness
DtLe(a, b) == UtcMin(a) < UtcMin(b) \/ (UtcMin(a) = UtcMin(b) /\ a.sec <= b.sec)

DtGt(a, b) == ~DtLe(a, b)

\* a == b of two datetimes: a naive and an aware one are never equal
DtEq(a, b) == IsAware(a) = IsAware(b) /\ UtcMin(a) = UtcMin(b) /\ a.sec = b.sec

\* t.replace(second=0, microsecond=0)
TruncMinute(t) == [t EXCEPT !.sec = 0]

\* the calendar fields of a minute count
CivilOfMin(min) ==
    LET c == CivilFromDays(min \div 1440)
    IN  [year |-> c.year, month |-> c.month, day |-> c.day,
         hour |-> (min % 1440) \div 60, minute |-> min % 60]

MinOfCivil(y, mo, d, h, mi) == DaysFromCivil(y, mo, d) * 1440 + h * 60 + mi

(***************************************************************************)
(* The occurrence engine (Occurrence.next / Occurrence.prev)               *)
(***************************************************************************)
YearMin == 1970

YearMax == 2199

array_find_last(sequence, function) ==
    IF \E i \in 1..Len(sequence) : function[sequence[i]]
    THEN [found |-> TRUE,
          val |-> sequence[CHOOSE i \in 1..Len(sequence) :
                      function[sequence[i]]
                      /\ \A j \in (i + 1)..Len(sequence) : ~function[sequence[j]]]]
    ELSE [found |-> FALSE, val |-> 0]

\* The days of (year, month) a parsed expression allows: from the day-of-week
\* constraint when day-of-month is "?", else from the day-of-month constraint.
DaysOfMonth(year, month, days_of_month, days_of_week) ==
    IF days_of_month.kind = "list" /\ days_of_month.vals = <<>>
    THEN get_days_of_month_from_days_of_week(year, month, days_of_week)
    ELSE IF days_of_month.kind = "L"
    THEN get_days_of_month_for_L(year, month, days_of_month.vals[1])
    ELSE IF days_of_month.kind = "W"
    THEN get_days_of_month_for_W(year, month, days_of_month.vals[1])
    ELSE Return(days_of_month.vals)

\* the resolved days that are days of the month
InMonth(year, month, r) ==
    IF r.exc # "none" THEN r
    ELSE Return(SelectSeq(r.val, LAMBDA d : d >= 1 /\ d <= MonthLen(year, month)))

ValidDays(cron, year, month) ==
    InMonth(year, month, DaysOfMonth(year, month, cron[3], cron[5]))

\* The first matching minute at or after the candidate (y, mo, d, h, mi).
RECURSIVE FindNext(_, _, _, _, _, _)
RECURSIVE FindNextInMonth(_, _, _, _, _, _, _)
FindNext(cron, y, mo, d, h, mi) ==
    LET year == array_find_first(cron[6].vals, [c \in Int |-> c >= y])
    IN
    IF ~year.found \/ year.val > YearMax THEN Return(NoneVal)
    ELSE IF year.val > y THEN FindNext(cron, year.val, 1, 1, 0, 0)
    ELSE
    LET month == array_find_first(cron[4].vals, [c \in Int |-> c >= mo])
    IN
    IF ~month.found THEN FindNext(cron, y + 1, 1, 1, 0, 0)
    ELSE IF month.val > mo THEN FindNext(cron, y, month.val, 1, 0, 0)
    ELSE
    FindNextInMonth(cron, y, mo, d, h, mi, ValidDays(cron, y, mo))

\* The search restarted at the candidate c (a record of calendar fields).
FindNextAt(cron, c) == FindNext(cron, c.year, c.month, c.day, c.hour, c.minute)

\* The search within the month (y, mo), whose allowed days are days.
FindNextInMonth(cron, y, mo, d, h, mi, days) ==
    IF days.exc # "none" THEN days
    ELSE
    LET day == array_find_first(days.val, [c \in Int |-> c >= d])
    IN
    IF ~day.found
    THEN (IF mo = 12 THEN FindNext(cron, y + 1, 1, 1, 0, 0)
          ELSE FindNext(cron, y, mo + 1, 1, 0, 0))
    ELSE IF day.val > d THEN FindNext(cron, y, mo, day.val, 0, 0)
    ELSE
    LET hour == array_find_first(cron[2].vals, [c \in Int |-> c >= h])
    IN
    IF ~hour.found
    THEN FindNextAt(cron, CivilOfMin(MinOfCivil(y, mo, d, 0, 0) + 1440))
    ELSE IF hour.val > h THEN FindNext(cron, y, mo, d, hour.val, 0)
    ELSE
    LET minute == array_find_first(cron[1].vals, [c \in Int |-> c >= mi])
    IN
    IF ~minute.found
    THEN FindNextAt(cron, CivilOfMin(MinOfCivil(y, mo, d, h, 0) + 60))
    ELSE Return(Datetime(MinOfCivil(y, mo, d, h, minute.val), 0, "utc"))

\* The last matching minute at or before the candidate (y, mo, d, h, mi).
RECURSIVE FindPrev(_, _, _, _, _, _)
RECURSIVE FindPrevInMonth(_, _, _, _, _, _, _)
FindPrev(cron, y, mo, d, h, mi) ==
    LET year == array_find_last(cron[6].vals, [c \in Int |-> c <= y])
    IN
    IF ~year.found \/ year.val < YearMin THEN Return(NoneVal)
    ELSE IF year.val < y THEN FindPrev(cron, year.val, 12, 31, 23, 59)
    ELSE
    LET month == array_find_last(cron[4].vals, [c \in Int |-> c <= mo])
    IN
    IF ~month.found THEN FindPrev(cron, y - 1, 12, 31, 23, 59)
    ELSE IF month.val < mo
    THEN FindPrev(cron, y, month.val, MonthLen(y, month.val), 23, 59)
    ELSE
    FindPrevInMonth(cron, y, mo, d, h, mi, ValidDays(cron, y, mo))

\* The search restarted at the candidate c (a record of calendar fields).
FindPrevAt(cron, c) == FindPrev(cron, c.year, c.month, c.day, c.hour, c.minute)

\* The search within the month (y, mo), whose allowed days are days.
FindPrevInMonth(cron, y, mo, d, h, mi, days) ==
    IF days.exc # "none" THEN days
    ELSE
    LET day == array_find_last(days.val, [c \in Int |-> c <= d])
    IN
    IF ~day.found
    THEN (IF mo = 1 THEN FindPrev(cron, y - 1, 12, 31, 23, 59)
          ELSE FindPrev(cron, y, mo - 1, MonthLen(y, mo - 1), 23, 59))
    ELSE IF day.val < d THEN FindPrev(cron, y, mo, day.val, 23, 59)
    ELSE
    LET hour == array_find_last(cron[2].vals, [c \in Int |-> c <= h])
    IN
    IF ~hour.found
    THEN FindPrevAt(cron, CivilOfMin(MinOfCivil(y, mo, d, 0, 0) - 1))
    ELSE IF hour.val < h THEN FindPrev(cron, y, mo, d, hour.val, 59)
    ELSE
    LET minute == array_find_last(cron[1].vals, [c \in Int |-> c <= mi])
    IN
    IF ~minute.found
    THEN FindPrevAt(cron, CivilOfMin(MinOfCivil(y, mo, d, h, 0) - 1))
    ELSE Return(Datetime(MinOfCivil(y, mo, d, h, minute.val), 0, "utc"))

\* Occurrence.next(): truncate the anchor to the minute, advance one minute.
OccurrenceNext(cron, utc_datetime) ==
    FindNextAt(cron, CivilOfMin(utc_datetime.min + 1))

\* Occurrence.prev(): truncate the anchor to the minute, retreat one minute.
OccurrencePrev(cron, utc_datetime) ==
    FindPrevAt(cron, CivilOfMin(utc_datetime.min - 1))

\* AWSCron.occurrence(utc_datetime): what its argument makes it raise, if anything
occurrence(utc_datetime) ==
    IF utc_datetime.kind # "datetime" THEN "AttributeError"
    ELSE IF utc_datetime.tz = "naive" \/ utc_datetime.tz # "utc" THEN "Exception"
    ELSE "none"

(***************************************************************************)
(* awscron.py: the schedule queries, from the parsed expression on         *)
(***************************************************************************)
RECURSIVE NextLoop(_, _, _, _)
\* Lines 220-221, next() having given r: r is the new from_date and is appended.
NextAppend(cron, n, schedule_list, r) ==
    IF r.exc # "none" THEN r
    ELSE NextLoop(cron, n - 1, r.val, Append(schedule_list, r.val))

\* The for loop of get_next_n_schedule, n rounds left.
NextLoop(cron, n, from_date, schedule_list) ==
    IF n = 0 THEN Return(schedule_list)
    ELSE IF occurrence(from_date) # "none" THEN Raise(occurrence(from_date))
    ELSE NextAppend(cron, n, schedule_list, OccurrenceNext(cron, from_date))

RECURSIVE PrevLoop(_, _, _, _)
\* Lines 244-245, prev() having given r: r is the new from_date and is appended.
PrevAppend(cron, n, schedule_list, r) ==
    IF r.exc # "none" THEN r
    ELSE PrevLoop(cron, n - 1, r.val, Append(schedule_list, r.val))

\* The for loop of get_prev_n_schedule, n rounds left.
PrevLoop(cron, n, from_date, schedule_list) ==
    IF n = 0 THEN Return(schedule_list)
    ELSE IF occurrence(from_date) # "none" THEN Raise(occurrence(from_date))
    ELSE PrevAppend(cron, n, schedule_list, OccurrencePrev(cron, from_date))

\* the search started on the truncated from_date itself
BwStart_no_step_back(from_date) == TruncMinute(from_date)

\* from_date.replace(second=0, microsecond=0) - timedelta(seconds=1)
BwStart(from_date) == [from_date EXCEPT !.min = from_date.min - 1, !.sec = 59]

BwStop(to_date) == TruncMinute(to_date)

RECURSIVE BwLoop(_, _, _, _)
\* Lines 283-286, next() having given r: break, or append and go round.
BwAppend(cron, stop, schedule_list, r) ==
    IF r.exc # "none" THEN r
    ELSE IF r.val.kind = "None" \/ DtGt(r.val, stop) THEN Return(schedule_list)
    ELSE BwLoop(cron, r.val, stop, Append(schedule_list, r.val))

\* The while loop of get_all_schedule_bw_dates (lines 282-286).
BwLoop(cron, from, stop, schedule_list) ==
    IF from.kind = "None" THEN Return(schedule_list)
    ELSE IF IsAware(from) # IsAware(stop) THEN Raise("TypeError")
    ELSE IF ~DtLe(from, stop) THEN Return(schedule_list)
    ELSE IF occurrence(from) # "none" THEN Raise(occurrence(from))
    ELSE BwAppend(cron, stop, schedule_list, OccurrenceNext(cron, from))

\* Lines 290-295: drop the ends.
ExcludeEnds(schedule_list, from_date, to_date) ==
    IF schedule_list = <<>> THEN Raise("IndexError")
    ELSE LET l1 == IF DtEq(schedule_list[1], TruncMinute(from_date))
                   THEN Tail(schedule_list) ELSE schedule_list
         IN  IF l1 = <<>> THEN Raise("IndexError")
             ELSE IF DtEq(l1[Len(l1)], TruncMinute(to_date))
                  THEN Return(SubSeq(l1, 1, Len(l1) - 1))
                  ELSE Return(l1)

\* Lines 290-295, the loop having given r.
AfterLoop(r, from_date, to_date, exclude_ends) ==
    IF r.exc # "none" THEN r
    ELSE IF exclude_ends THEN ExcludeEnds(r.val, from_date, to_date)
    ELSE r

\* Lines 277-295, the expression being parsed.
AllBetween(cron, from_date, to_date, exclude_ends) ==
    AfterLoop(BwLoop(cron, BwStart(from_date), BwStop(to_date), <<>>),
              from_date, to_date, exclude_ends)

(***************************************************************************)
(* Inputs.  A cron text is written from a description of its fields, each  *)
(* a list of tokens, and is parsed back character by character.            *)
(***************************************************************************)
Tok(form, a, b, s) == [form |-> form, a |-> a, b |-> b, s |-> s, raw |-> <<>>]

Star == Tok("star", 0, 0, 0)

I(a) == Tok("int", a, 0, 0)

R(a, b) == Tok("range", a, b, 0)

SS(s) == Tok("starstep", 0, 0, s)

IS(a, s) == Tok("intstep", a, 0, s)

RS(a, b, s) == Tok("rangestep", a, b, s)

Raw(text) == [form |-> "raw", a |-> 0, b |-> 0, s |-> 0, raw |-> text]

TokenText(t) ==
    CASE t.form = "star"      -> <<"*">>
      [] t.form = "int"       -> PyStr(t.a)
      [] t.form = "range"     -> PyStr(t.a) \o <<"-">> \o PyStr(t.b)
      [] t.form = "starstep"  -> <<"*", "/">> \o PyStr(t.s)
      [] t.form = "intstep"   -> PyStr(t.a) \o <<"/">> \o PyStr(t.s)
      [] t.form = "rangestep" -> PyStr(t.a) \o <<"-">> \o PyStr(t.b) \o <<"/">> \o PyStr(t.s)
      [] OTHER                -> t.raw

FieldText(f) == PyJoin([i \in 1..Len(f) |-> TokenText(f[i])], ",")

CronText(fs) == PyJoin([i \in 1..Len(fs) |-> FieldText(fs[i])], " ")

\* Model bounds
MaxTracked == 3

MaxN == 3

MaxSpan == 2

CalYearSpan == 28

MaxNth == 6

Steps == {-1, 0, 2, 15}

SpecialTexts ==
    { <<"?">>, <<"L">>, <<"L", "-", "2">>, <<"3", "L">>, <<"1", "5", "W">>,
      <<"2", "#", "1">> }

OtherTexts ==
    { <<>>, <<"x">>, <<"5", "-">>, <<"1", ",", ",", "2">>, <<"1", "#">>,
      <<"J", "A", "N">>, <<"j", "a", "n", "-", "m", "a", "r">>,
      <<"M", "O", "N", "-", "F", "R", "I">>, <<"s", "u", "n", "#", "2">> }

\* The field descriptions tried on a field of bounds lo..hi.
FieldInputs(lo, hi) ==
    { <<Star>>, <<I(lo)>>, <<I(hi)>>, <<I(hi + 1)>>, <<R(lo, lo + 2)>>,
      <<R(hi - 1, hi + 1)>>, <<R(lo + 3, lo + 1)>>, <<RS(lo + 3, lo + 1, 1)>>,
      <<IS(hi + 1, 1)>> }
    \cup { <<SS(s)>> : s \in Steps }
    \cup { <<IS(lo + 1, s)>> : s \in Steps }
    \cup { <<RS(lo, lo + 5, s)>> : s \in Steps }
    \cup { <<I(lo + 1), I(lo)>>, <<I(lo), I(lo)>>, <<R(lo, lo + 1), I(lo)>>,
           <<I(lo), SS(15)>>, <<Star, I(lo)>>, <<RS(lo, lo + 5, 2), I(lo)>>,
           <<I(lo), RS(lo, lo + 5, 2)>>, <<I(lo), IS(lo, 2)>> }
    \cup { <<Raw(t)>> : t \in SpecialTexts \cup OtherTexts }

DefaultFields == << <<I(0)>>, <<I(0)>>, <<I(1)>>, <<I(1)>>, <<Raw(<<"?">>)>>, <<I(2024)>> >>

\* The cron descriptions handed to the constructor: one field varied, and
\* texts of five and of seven fields.
ConstructInputs ==
    UNION { { [DefaultFields EXCEPT ![i + 1] = f] :
                  f \in FieldInputs(FieldBounds[i + 1][1], FieldBounds[i + 1][2]) } :
              i \in 0..5 }
    \cup { SubSeq(DefaultFields, 1, 5),
           DefaultFields \o << <<I(0)>> >>,
           DefaultFields \o << <<Raw(<<"x">>)>> >>,
           << <<I(0)>>, <<Raw(<<>>)>> >> \o SubSeq(DefaultFields, 2, 6) }

\* The expressions the queries are run on.
EveryMinute == << <<Star>>, <<Star>>, <<Star>>, <<Star>>, <<Raw(<<"?">>)>>, <<Star>> >>

QueryCrons ==
    { EveryMinute,
      [EveryMinute EXCEPT ![1] = <<SS(2)>>],
      << <<I(0)>>, <<I(0)>>, <<Raw(<<"L">>)>>, <<Star>>, <<Raw(<<"?">>)>>, <<Star>> >>,
      << <<I(0)>>, <<I(0)>>, <<Raw(<<"?">>)>>, <<Star>>, <<Raw(<<"5", "#", "5">>)>>, <<Star>> >>,
      << <<I(59)>>, <<I(23)>>, <<I(31)>>, <<I(12)>>, <<Raw(<<"?">>)>>, <<I(2199)>> >>,
      << <<I(0), I(1)>>, <<I(0)>>, <<I(1)>>, <<I(1)>>, <<Raw(<<"?">>)>>, <<I(1970)>> >> }

\* The minutes the anchors and windows are taken around.
Bases ==
    { MinOfCivil(1970, 1, 1, 0, 0), MinOfCivil(2024, 2, 29, 0, 0),
      MinOfCivil(2199, 12, 31, 23, 58) }

Secs == {0, 30}

Zones == {"utc", "naive", "plus1"}

\* the instant of zone tz that shows the UTC minute min on a UTC clock
At(min, sec, tz) == Datetime(min + UtcOffset(tz), sec, tz)

Anchors ==
    { At(b + i, s, "utc") : b \in Bases, i \in 0..1, s \in Secs }
    \cup { At(b, 0, tz) : b \in Bases, tz \in Zones }
    \cup { NotADatetime }

Windows ==
    { <<At(b + i, s, "utc"), At(b + i + d, s2, "utc")>> :
          b \in Bases, i \in 0..1, s \in Secs, d \in 0..MaxSpan, s2 \in Secs }
    \cup { <<At(b, 0, tz1), At(b + 1, 0, tz2)>> : b \in Bases, tz1 \in Zones, tz2 \in Zones }
    \cup { <<NotADatetime, At(b, 0, "utc")>> : b \in Bases }
    \cup { <<At(b, 0, "utc"), NotADatetime>> : b \in Bases }
    \cup { <<NotADatetime, NotADatetime>> }

CalYears == 2000..(2000 + CalYearSpan - 1)

DaysOfWeekInputs ==
    { Constraint("#", <<w, n>>) : w \in 1..7, n \in 1..MaxNth }
    \cup { Constraint("L", <<w>>) : w \in 1..7 }
    \cup { Constraint("list", <<2, 4>>), Constraint("list", <<>>) }

(***************************************************************************)
(* The state machine.  pc: "idle" (no call in progress), "parse" (about to *)
(* parse field k of the expression), "while" (inside the stepped loop of   *)
(* field k), "built" (the AWSCron object is constructed), "done" (the call *)
(* has returned or raised: out).                                           *)
(***************************************************************************)
NoOp ==
    [name |-> "none", cron |-> <<>>, desc |-> <<>>, n |-> 0,
     from_date |-> NoneVal, to_date |-> NoneVal, exclude_ends |-> FALSE,
     year |-> 0, month |-> 0, day |-> 0, days_of_week |-> Constraint("list", <<>>)]

Pending == [exc |-> "pending", val |-> <<>>]

Init ==
    /\ pc = "idle"
    /\ op = NoOp
    /\ rules = <<>>
    /\ k = 0
    /\ fields = <<>>
    /\ start = 0
    /\ end = 0
    /\ increment = 0
    /\ new_rule = <<>>
    /\ iters = 0
    /\ tick = 0
    /\ out = Pending

\* AWSCron.__init__ up to its call of __parse
NewAWSCron(cron) ==
    /\ rules' = PySplit(cron, " ")
    /\ k' = 0
    /\ fields' = <<>>
    /\ pc' = "parse"
    /\ UNCHANGED <<start, end, increment, new_rule, iters, tick, out>>

\* A call that raises before it constructs the expression
RaiseAtEntry(e) ==
    /\ out' = Raise(e)
    /\ pc' = "done"
    /\ UNCHANGED <<rules, k, fields, start, end, increment, new_rule, iters, tick>>

\* AWSCron(cron)
Call_AWSCron ==
    /\ pc = "idle"
    /\ \E c \in ConstructInputs :
          /\ op' = [NoOp EXCEPT !.name = "AWSCron", !.cron = CronText(c), !.desc = c]
          /\ NewAWSCron(CronText(c))

\* __parse_one_rule returns res for field k: __parse goes on, or the
\* exception leaves the constructor and the call.
Deliver(res) ==
    IF res.exc # "none"
    THEN /\ out' = res
         /\ pc' = "done"
         /\ UNCHANGED <<fields, k>>
    ELSE /\ fields' = Append(fields, res.val)
         /\ k' = k + 1
         /\ pc' = IF k + 1 = 6 THEN "built" ELSE "parse"
         /\ UNCHANGED out

\* __parse reads rules[k] and __parse_one_rule runs up to its while loop
ParseRule ==
    /\ pc = "parse"
    /\ IF k + 1 > Len(rules)
       THEN /\ out' = Raise("IndexError")
            /\ pc' = "done"
            /\ UNCHANGED <<fields, k, start, end, increment, new_rule, iters>>
       ELSE LET rule    == FieldRule(rules, k)
                min     == FieldBounds[k + 1][1]
                max     == FieldBounds[k + 1][2]
                special == SpecialRule(rule)
                setup   == StepSetup(rule, min, max)
            IN  IF special.hit
                THEN /\ Deliver(special.res)
                     /\ UNCHANGED <<start, end, increment, new_rule, iters>>
                ELSE IF rule = <<"*">>
                THEN /\ Deliver(Allows(PyStr(min) \o <<"-">> \o PyStr(max)))
                     /\ UNCHANGED <<start, end, increment, new_rule, iters>>
                ELSE IF Contains(rule, "/")
                THEN IF setup.exc # "none"
                     THEN /\ Deliver(Raise(setup.exc))
                          /\ UNCHANGED <<start, end, increment, new_rule, iters>>
                     ELSE /\ start' = setup.start
                          /\ end' = setup.end
                          /\ increment' = setup.increment
                          /\ new_rule' = <<>>
                          /\ iters' = 0
                          /\ pc' = "while"
                          /\ UNCHANGED <<fields, k, out>>
                ELSE /\ Deliver(Allows(rule))
                     /\ UNCHANGED <<start, end, increment, new_rule, iters>>
    /\ UNCHANGED <<op, rules, tick>>

\* One round of `while start <= end` (lines 183-185).  With increment <= 0
\* the condition stays true for ever; the text built is then followed for
\* MaxTracked rounds only.
WhileStep ==
    /\ pc = "while"
    /\ start <= end
    /\ increment > 0 \/ iters < MaxTracked
    /\ new_rule' = new_rule \o <<",">> \o PyStr(start)
    /\ start' = start + increment
    /\ iters' = IF iters < MaxTracked THEN iters + 1 ELSE iters
    /\ UNCHANGED <<pc, op, rules, k, fields, end, increment, tick, out>>

\* A further round of a loop whose increment is <= 0: start <= end still holds.
WhileSpin ==
    /\ pc = "while"
    /\ start <= end
    /\ increment <= 0
    /\ iters >= MaxTracked
    /\ tick' = 1 - tick
    /\ UNCHANGED <<pc, op, rules, k, fields, start, end, increment, new_rule, iters, out>>

\* The loop ends (lines 186, 189-200)
WhileExit ==
    /\ pc = "while"
    /\ ~(start <= end)
    /\ Deliver(Allows(SubSeq(new_rule, 2, Len(new_rule))))
    /\ UNCHANGED <<op, rules, start, end, increment, new_rule, iters, tick>>

\* AWSCron(cron) returns the object
Return_AWSCron ==
    /\ pc = "built"
    /\ op.name = "AWSCron"
    /\ out' = Return(fields)
    /\ pc' = "done"
    /\ UNCHANGED <<op, rules, k, fields, start, end, increment, new_rule, iters, tick>>

\* get_next_n_schedule(n, from_date, cron), up to the construction
Call_get_next_n_schedule ==
    /\ pc = "idle"
    /\ \E c \in QueryCrons, a \in Anchors, n \in 0..MaxN :
          /\ op' = [NoOp EXCEPT !.name = "get_next_n_schedule", !.cron = CronText(c),
                                !.desc = c, !.n = n, !.from_date = a]
          /\ IF a.kind # "datetime" THEN RaiseAtEntry("ValueError")
             ELSE NewAWSCron(CronText(c))

\* get_next_n_schedule, from the constructed expression on
Return_get_next_n_schedule ==
    /\ pc = "built"
    /\ op.name = "get_next_n_schedule"
    /\ out' = NextLoop(fields, op.n, op.from_date, <<>>)
    /\ pc' = "done"
    /\ UNCHANGED <<op, rules, k, fields, start, end, increment, new_rule, iters, tick>>

\* get_prev_n_schedule(n, from_date, cron), up to the construction
Call_get_prev_n_schedule ==
    /\ pc = "idle"
    /\ \E c \in QueryCrons, a \in Anchors, n \in 0..MaxN :
          /\ op' = [NoOp EXCEPT !.name = "get_prev_n_schedule", !.cron = CronText(c),
                                !.desc = c, !.n = n, !.from_date = a]
          /\ IF a.kind # "datetime" THEN RaiseAtEntry("ValueError")
             ELSE NewAWSCron(CronText(c))

\* get_prev_n_schedule, from the constructed expression on
Return_get_prev_n_schedule ==
    /\ pc = "built"
    /\ op.name = "get_prev_n_schedule"
    /\ out' = PrevLoop(fields, op.n, op.from_date, <<>>)
    /\ pc' = "done"
    /\ UNCHANGED <<op, rules, k, fields, start, end, increment, new_rule, iters, tick>>

\* get_all_schedule_bw_dates(from_date, to_date, cron, exclude_ends), lines 264-278
Call_get_all_schedule_bw_dates ==
    /\ pc = "idle"
    /\ \E c \in QueryCrons, w \in Windows, x \in BOOLEAN :
          /\ op' = [NoOp EXCEPT !.name = "get_all_schedule_bw_dates",
                                !.cron = CronText(c), !.desc = c, !.from_date = w[1],
                                !.to_date = w[2], !.exclude_ends = x]
          /\ IF w[1].kind # w[2].kind THEN RaiseAtEntry("ValueError")
             ELSE IF w[1].kind # "datetime" \/ w[1].tz # "utc"
             THEN RaiseAtEntry("ValueError")
             ELSE NewAWSCron(CronText(c))

\* get_all_schedule_bw_dates, lines 279-295
Return_get_all_schedule_bw_dates ==
    /\ pc = "built"
    /\ op.name = "get_all_schedule_bw_dates"
    /\ out' = AllBetween(fields, op.from_date, op.to_date, op.exclude_ends)
    /\ pc' = "done"
    /\ UNCHANGED <<op, rules, k, fields, start, end, increment, new_rule, iters, tick>>

\* Commons.get_days_of_month_for_W(year, month, day)
Call_get_days_of_month_for_W ==
    /\ pc = "idle"
    /\ \E y \in CalYears, m \in 1..12, d \in 1..31 :
          /\ op' = [NoOp EXCEPT !.name = "get_days_of_month_for_W", !.year = y,
                                !.month = m, !.day = d]
          /\ out' = get_days_of_month_for_W(y, m, d)
    /\ pc' = "done"
    /\ UNCHANGED <<rules, k, fields, start, end, increment, new_rule, iters, tick>>

\* Commons.get_days_of_month_from_days_of_week(year, month, days_of_week)
Call_get_days_of_month_from_days_of_week ==
    /\ pc = "idle"
    /\ \E y \in CalYears, m \in 1..12, w \in DaysOfWeekInputs :
          /\ op' = [NoOp EXCEPT !.name = "get_days_of_month_from_days_of_week",
                                !.year = y, !.month = m, !.days_of_week = w]
          /\ out' = get_days_of_month_from_days_of_week(y, m, w)
    /\ pc' = "done"
    /\ UNCHANGED <<rules, k, fields, start, end, increment, new_rule, iters, tick>>

\* The caller has the result; the next call starts from scratch.
Done ==
    /\ pc = "done"
    /\ pc' = "idle"
    /\ op' = NoOp
    /\ rules' = <<>>
    /\ k' = 0
    /\ fields' = <<>>
    /\ start' = 0
    /\ end' = 0
    /\ increment' = 0
    /\ new_rule' = <<>>
    /\ iters' = 0
    /\ tick' = 0
    /\ out' = Pending

Parse == ParseRule \/ WhileStep \/ WhileSpin \/ WhileExit

NextCron == Call_AWSCron \/ Parse \/ Return_AWSCron \/ Done

NextQuery ==
    \/ Call_get_next_n_schedule
    \/ Call_get_prev_n_schedule
    \/ Call_get_all_schedule_bw_dates
    \/ ParseRule
    \/ WhileStep
    \/ WhileExit
    \/ Return_get_next_n_schedule
    \/ Return_get_prev_n_schedule
    \/ Return_get_all_schedule_bw_dates
    \/ Done

NextCalendar ==
    \/ Call_get_days_of_month_for_W
    \/ Call_get_days_of_month_from_days_of_week
    \/ Done

Next == NextCron \/ NextQuery \/ NextCalendar

\* Every operation of the library
Spec == Init /\ [][Next]_vars

\* The constructor and the field parser
SpecCron == Init /\ [][NextCron]_vars

\* The same, the interpreter going on with a loop it has entered: it takes
\* the next round, or leaves the loop, whenever it can.
FairSpecCron ==
    SpecCron /\ WF_vars(WhileStep) /\ WF_vars(WhileSpin) /\ WF_vars(WhileExit)

\* The schedule queries
SpecQuery == Init /\ [][NextQuery]_vars

\* The calendar resolver
SpecCalendar == Init /\ [][NextCalendar]_vars

(***************************************************************************)
(* Reference notions the properties are stated with                        *)
(***************************************************************************)
In(list, x) == \E i \in 1..Len(list) : list[i] = x

\* AWS weekday number of a date, 1 = Sunday .. 7 = Saturday
RefDayOfWeek(y, m, d) == ((DaysFromCivil(y, m, d) + 4) % 7) + 1

\* The UTC minute min satisfies every field of the parsed expression.
Matches(cron, min) ==
    LET c    == CivilOfMin(min)
        days == ValidDays(cron, c.year, c.month)
    IN  /\ In(cron[6].vals, c.year)
        /\ In(cron[4].vals, c.month)
        /\ days.exc = "none"
        /\ In(days.val, c.day)
        /\ In(cron[2].vals, c.hour)
        /\ In(cron[1].vals, c.minute)

\* The occurrences in lo..hi, ascending
RECURSIVE OccurrencesIn(_, _, _)
OccurrencesIn(cron, lo, hi) ==
    IF lo > hi THEN <<>>
    ELSE (IF Matches(cron, lo) THEN <<Datetime(lo, 0, "utc")>> ELSE <<>>)
         \o OccurrencesIn(cron, lo + 1, hi)

IsUtc(t) == t.kind = "datetime" /\ t.tz = "utc"

\* a call of get_all_schedule_bw_dates on UTC instants from <= to has ended
BetweenEnded(exclude_ends) ==
    /\ pc = "done"
    /\ op.name = "get_all_schedule_bw_dates"
    /\ op.exclude_ends = exclude_ends
    /\ IsUtc(op.from_date)
    /\ IsUtc(op.to_date)
    /\ DtLe(op.from_date, op.to_date)
    /\ Len(fields) = 6

\* The values a token stands for on a field of bounds min..max
StepList(from, to, s) ==
    [i \in 1..(IF from <= to THEN ((to - from) \div s) + 1 ELSE 0) |-> from + (i - 1) * s]

TokenExpand(t, min, max) ==
    CASE t.form = "star"      -> RangeList(min, max)
      [] t.form = "int"       -> <<t.a>>
      [] t.form = "range"     -> RangeList(t.a, t.b)
      [] t.form = "starstep"  -> StepList(min, max, t.s)
      [] t.form = "intstep"   -> StepList(t.a, max, t.s)
      [] t.form = "rangestep" -> StepList(t.a, t.b, t.s)
      [] OTHER                -> <<>>

RECURSIVE FieldExpand(_, _, _)
FieldExpand(f, min, max) ==
    IF f = <<>> THEN <<>>
    ELSE TokenExpand(Head(f), min, max) \o FieldExpand(Tail(f), min, max)

\* every token of the field is *, an integer, a range or a stepped form
IsEnumeration(f) == \A i \in 1..Len(f) : f[i].form # "raw"

IsStepped(t) == t.form \in {"starstep", "intstep", "rangestep"}

\* a field the grammar certainly accepts: a special form, or one token, or a
\* list of integers and ranges; steps are positive and reach a value
IsValidField(f, min, max) ==
    \/ Len(f) = 1 /\ f[1].form = "raw" /\ f[1].raw \in SpecialTexts
    \/ /\ IsEnumeration(f)
       /\ Len(f) = 1 \/ \A i \in 1..Len(f) : f[i].form \in {"int", "range"}
       /\ \A i \in 1..Len(f) :
             IsStepped(f[i]) => f[i].s > 0 /\ TokenExpand(f[i], min, max) # <<>>

C2_AllBetweenExcludeEnds ==
    BetweenEnded(TRUE)
        => out = Return(SelectSeq(OccurrencesIn(fields, op.from_date.min, op.to_date.min),
                                  LAMBDA t : t.min # op.from_date.min /\ t.min # op.to_date.min))

NStep(a) ==
    IF a.kind = "None" THEN NoneVal
    ELSE IF op.name = "get_next_n_schedule" THEN OccurrenceNext(fields, a).val
    ELSE OccurrencePrev(fields, a).val

\* C3: get_next_n_schedule (get_prev_n_schedule) on a UTC anchor returns n
\* results, the first next (prev) of the anchor and each further one next
\* (prev) of the one before, also when the search runs out of years.
C3_NextNChain ==
    (/\ pc = "done"
     /\ op.name \in {"get_next_n_schedule", "get_prev_n_schedule"}
     /\ IsUtc(op.from_date)
     /\ Len(fields) = 6)
        => /\ out.exc = "none"
           /\ Len(out.val) = op.n
           /\ \A i \in 1..op.n :
                 out.val[i] = NStep(IF i = 1 THEN op.from_date ELSE out.val[i - 1])

\* the exceptions the library raises for an instant it rejects
InvalidInput == {"ValueError", "Exception"}

\* C4: every query given a datetime that is not UTC-designated (the anchor,
\* or from, or to) raises the invalid-input error and returns nothing.
C4_RejectsNonUtc ==
    /\ (/\ pc = "done"
        /\ op.name \in {"get_next_n_schedule", "get_prev_n_schedule"}
        /\ op.from_date.kind = "datetime"
        /\ op.from_date.tz # "utc")
           => out.exc \in InvalidInput
    /\ (/\ pc = "done"
        /\ op.name = "get_all_schedule_bw_dates"
        /\ op.from_date.kind = "datetime"
        /\ op.to_date.kind = "datetime"
        /\ op.from_date.tz # "utc" \/ op.to_date.tz # "utc")
           => out.exc \in InvalidInput

\* C5: the constructor raises whenever the text does not split on single
\* spaces into exactly six fields, and returns with six valid fields.
C5_SixFields ==
    (pc = "done" /\ op.name = "AWSCron")
        => /\ Len(PySplit(op.cron, " ")) # 6 => out.exc # "none"
           /\ (/\ Len(op.desc) = 6
               /\ \A i \in 1..6 :
                     IsValidField(op.desc[i], FieldBounds[i][1], FieldBounds[i][2]))
                 => out.exc = "none"

\* C6: every list of values the parser has returned for a field is sorted
\* ascending and lies within the bounds of the field.
C6_SortedWithinBounds ==
    \A i \in 1..Len(fields) :
        fields[i].kind = "list"
            => /\ \A j \in 1..(Len(fields[i].vals) - 1) :
                     fields[i].vals[j] <= fields[i].vals[j + 1]
               /\ \A j \in 1..Len(fields[i].vals) :
                     /\ fields[i].vals[j] >= FieldBounds[i][1]
                     /\ fields[i].vals[j] <= FieldBounds[i][2]

\* C7: a field made of *, integers, ranges and stepped forms, alone or in a
\* comma-separated list, parses to the ascending sort (duplicates kept) of
\* the values of its tokens.
C7_ListExpansion ==
    (/\ pc = "done"
     /\ op.name = "AWSCron"
     /\ Len(op.desc) = 6
     /\ \A i \in 1..6 : IsEnumeration(op.desc[i]) \/ op.desc[i] = <<Raw(<<"?">>)>>)
        => /\ out.exc = "none"
           /\ \A i \in 1..6 :
                 IsEnumeration(op.desc[i])
                     => out.val[i] =
                            Constraint("list",
                                PySort(FieldExpand(op.desc[i], FieldBounds[i][1],
                                                   FieldBounds[i][2])))

\* the offsets c, in the order tried, for which day + c is a Monday-Friday
\* date of the month
WeekdayOffsets(y, m, day) ==
    SelectSeq(WOffsets,
              LAMBDA c : /\ day + c >= 1
                         /\ day + c <= MonthLen(y, m)
                         /\ RefDayOfWeek(y, m, day + c) \in 2..6)

\* C8: get_days_of_month_for_W never raises for a real year and month and a
\* day of 1..31: it returns the first Monday-Friday date of the month among
\* day, day+1, day-1, day+2, day-2, or the empty list when there is none.
C8_NearestWeekdayTotal ==
    (pc = "done" /\ op.name = "get_days_of_month_for_W")
        => out = Return(IF WeekdayOffsets(op.year, op.month, op.day) = <<>> THEN <<>>
                        ELSE <<op.day + WeekdayOffsets(op.year, op.month, op.day)[1]>>)

\* the days of the month that are the n-th one of weekday w
NthDays(y, m, w, n) ==
    {d \in 1..MonthLen(y, m) :
        /\ RefDayOfWeek(y, m, d) = w
        /\ Cardinality({e \in 1..(d - 1) : RefDayOfWeek(y, m, e) = w}) = n - 1}

\* C9: for the n-th weekday w of a month (n >= 1) the resolver returns
\* exactly the day of weekday w that has n - 1 earlier days of weekday w in
\* the month, and the empty list when the month has fewer than n such days.
C9_NthWeekday ==
    (/\ pc = "done"
     /\ op.name = "get_days_of_month_from_days_of_week"
     /\ op.days_of_week.kind = "#")
        => /\ out.exc = "none"
           /\ {out.val[i] : i \in 1..Len(out.val)}
                  = NthDays(op.year, op.month, op.days_of_week.vals[1],
                            op.days_of_week.vals[2])
           /\ Len(out.val) <= 1

\* C9 witness: the second Sunday of March 2024 is the 10th.
C9_Witness ==
    /\ pc = "done"
    /\ op.name = "get_days_of_month_from_days_of_week"
    /\ op.days_of_week = Constraint("#", <<1, 2>>)
    /\ op.year = 2024
    /\ op.month = 3
    /\ out = Return(<<10>>)

\* C10: parsing a field always ends: the stepped loop is left, whatever
\* integer the step is.
C10_ParseTerminates == (pc = "while") ~> (pc # "while")

====
